---------------------------- MODULE Spec2Model ----------------------------
(***************************************************************************)
(* Model of the anonymous_github tree synchronizer (GitHubStream), the     *)
(* filesystem storage backend (FileSystem) and the removeCache queue job.  *)
(*                                                                         *)
(* Strings are sequences of one-character strings, so that the code's      *)
(* string operations (split, indexOf, substr, p[0] == "$", path.join,      *)
(* dirname, basename) are computed rather than assumed.                    *)
(***************************************************************************)
EXTENDS Naturals, Sequences, FiniteSets, TLC

(***************************************************************************)
(* Strings and node's posix `path` module                                  *)
(***************************************************************************)
SLASH == "/"
DOLLAR == "$"
BACKSLASH == "\\"
DOT == <<".">>
DOTDOT == <<".", ".">>

Last(s) == s[Len(s)]
Front(s) == SubSeq(s, 1, Len(s) - 1)

RECURSIVE SplitFrom(_, _, _)
SplitFrom(s, i, cur) ==
  IF i > Len(s) THEN <<cur>>
  ELSE IF s[i] = SLASH THEN <<cur>> \o SplitFrom(s, i + 1, <<>>)
  ELSE SplitFrom(s, i + 1, Append(cur, s[i]))

\* String.prototype.split("/")
Split(s) == SplitFrom(s, 1, <<>>)

RECURSIVE JoinSegs(_)
\* Array.prototype.join("/")
JoinSegs(segs) ==
  IF Len(segs) = 0 THEN <<>>
  ELSE IF Len(segs) = 1 THEN segs[1]
  ELSE segs[1] \o <<SLASH>> \o JoinSegs(Tail(segs))

RECURSIVE NormalizeSegs(_, _, _)
\* posix normalizeString: drops "" and ".", resolves ".." against the
\* previous segment, keeps a leading ".." only for a relative path
NormalizeSegs(segs, acc, allowAboveRoot) ==
  IF Len(segs) = 0 THEN acc
  ELSE LET s == Head(segs) IN
    IF s = <<>> \/ s = DOT THEN NormalizeSegs(Tail(segs), acc, allowAboveRoot)
    ELSE IF s = DOTDOT THEN
      IF Len(acc) > 0 /\ Last(acc) # DOTDOT
        THEN NormalizeSegs(Tail(segs), Front(acc), allowAboveRoot)
      ELSE IF allowAboveRoot
        THEN NormalizeSegs(Tail(segs), Append(acc, s), allowAboveRoot)
      ELSE NormalizeSegs(Tail(segs), acc, allowAboveRoot)
    ELSE NormalizeSegs(Tail(segs), Append(acc, s), allowAboveRoot)

\* path.normalize
Normalize(p) ==
  IF Len(p) = 0 THEN DOT
  ELSE LET isAbsolute == p[1] = SLASH
           trailing == Last(p) = SLASH
           body == JoinSegs(NormalizeSegs(Split(p), <<>>, ~isAbsolute))
       IN IF Len(body) = 0
            THEN (IF isAbsolute THEN <<SLASH>>
                  ELSE IF trailing THEN <<".", SLASH>> ELSE DOT)
          ELSE (IF isAbsolute THEN <<SLASH>> ELSE <<>>) \o body
                 \o (IF trailing THEN <<SLASH>> ELSE <<>>)

RECURSIVE JoinRaw(_)
JoinRaw(parts) ==
  IF Len(parts) = 0 THEN <<>>
  ELSE LET rest == JoinRaw(Tail(parts)) IN
    IF Len(Head(parts)) = 0 THEN rest
    ELSE IF Len(rest) = 0 THEN Head(parts)
    ELSE Head(parts) \o <<SLASH>> \o rest

\* path.join(...parts): the non-empty parts joined with "/", normalized
join(parts) == Normalize(JoinRaw(parts))

RECURSIVE StripTrailingSlashes(_)
StripTrailingSlashes(p) ==
  IF Len(p) > 1 /\ Last(p) = SLASH THEN StripTrailingSlashes(Front(p)) ELSE p

RECURSIVE LastSlash(_, _)
\* index of the last "/" at or before position i, 0 when there is none
LastSlash(p, i) ==
  IF i = 0 THEN 0 ELSE IF p[i] = SLASH THEN i ELSE LastSlash(p, i - 1)

\* path.dirname
dirname(p) ==
  IF Len(p) = 0 THEN DOT
  ELSE LET q == StripTrailingSlashes(p)
           k == LastSlash(q, Len(q))
       IN IF k = 0 THEN DOT
          ELSE IF k = 1 THEN <<SLASH>>
          ELSE StripTrailingSlashes(SubSeq(q, 1, k - 1))

\* path.basename
basename(p) ==
  IF Len(p) = 0 THEN <<>>
  ELSE LET q == StripTrailingSlashes(p)
           k == LastSlash(q, Len(q))
       IN IF q = <<SLASH>> THEN <<>> ELSE SubSeq(q, k + 1, Len(q))

RECURSIVE IndexOfFrom(_, _, _)
IndexOfFrom(s, c, i) ==
  IF i > Len(s) THEN 0 ELSE IF s[i] = c THEN i ELSE IndexOfFrom(s, c, i + 1)

\* String.prototype.indexOf(c), 1-based; 0 stands for JavaScript's -1
IndexOf(s, c) == IndexOfFrom(s, c, 1)

IsPrefix(a, b) == Len(a) <= Len(b) /\ SubSeq(b, 1, Len(a)) = a

RECURSIVE SetToSeq(_)
\* some enumeration of a finite set (the order readdir happens to return)
SetToSeq(S) ==
  IF S = {} THEN <<>>
  ELSE LET x == CHOOSE y \in S : TRUE IN <<x>> \o SetToSeq(S \ {x})

Range(s) == {s[i] : i \in 1..Len(s)}


(***************************************************************************)
(* Tree data model.                                                        *)
(*                                                                         *)
(* A Tree (nested object: segment -> Tree | {size, sha}) is encoded as the *)
(* function from each key path (sequence of keys from the root) to the     *)
(* node stored there.  Two nested objects are equal exactly when their     *)
(* encodings are.  `current[p]` of the code is a lookup of prefix \o <<p>>.*)
(***************************************************************************)
EmptyTree == <<>>
DirNode == [type |-> "tree", size |-> 0, sha |-> <<>>]
FileEntry(size, sha) == [type |-> "blob", size |-> size, sha |-> sha]

Restrict(f, S) == [k \in S |-> f[k]]

\* current[p] = value, where value is a fresh object: whatever hung below
\* the old value is gone
TreeAssign(T, key, value) ==
  (key :> value) @@
  Restrict(T, {k \in DOMAIN T : ~IsPrefix(key, k)})

\* the `$` escape of tree2Tree and listFiles: if (p[0] == "$") p = "\\" + p
EscapeSeg(p) ==
  IF Len(p) > 0 /\ p[1] = DOLLAR THEN <<BACKSLASH>> \o p ELSE p

EscapePath(paths) == [i \in 1..Len(paths) |-> EscapeSeg(paths[i])]

RECURSIVE MakeDirs(_, _, _)
\* the inner loop of tree2Tree: if (!current[p]) current[p] = {}
MakeDirs(T, keys, i) ==
  IF i > Len(keys) THEN T
  ELSE LET k == SubSeq(keys, 1, i) IN
    MakeDirs(IF k \in DOMAIN T THEN T ELSE (k :> DirNode) @@ T, keys, i + 1)

\* one iteration of tree2Tree's outer loop
Tree2TreeElem(T, elem, parentPath) ==
  IF Len(elem.path) = 0 THEN T
  ELSE LET paths == Split(join(<<parentPath, elem.path>>))
           end == IF elem.type = "tree" THEN Len(paths) ELSE Len(paths) - 1
           keys == EscapePath(paths)
           T1 == MakeDirs(T, SubSeq(keys, 1, end), 1)
       IN IF elem.type = "blob"
            THEN TreeAssign(T1, SubSeq(keys, 1, end + 1),
                            FileEntry(elem.size, elem.sha))
          ELSE T1

RECURSIVE Tree2TreeFrom(_, _, _, _)
Tree2TreeFrom(list, T, parentPath, i) ==
  IF i > Len(list) THEN T
  ELSE Tree2TreeFrom(list, Tree2TreeElem(T, list[i], parentPath), parentPath, i + 1)

\* GitHubStream.tree2Tree
tree2Tree(list, partialTree, parentPath) ==
  Tree2TreeFrom(list, partialTree, parentPath, 1)

(***************************************************************************)
(* The remote hosting API (get-tree).  A repository revision is its        *)
(* complete recursive listing in git's order; the sha of an entry is its   *)
(* path, the sha of the revision is Commit.                                *)
(***************************************************************************)
Commit == <<"#">>

Entry(path, type, size) == [path |-> path, type |-> type, size |-> size, sha |-> path]

\* every entry a fixture repository may hold, in listing order
Universe ==
  << Entry(<<"$", "d">>, "tree", 0),
     Entry(<<"$", "d", "/", "w">>, "blob", 1),
     Entry(<<"\\", "$", "d">>, "blob", 2),
     Entry(<<"a">>, "tree", 0),
     Entry(<<"a", "/", "b">>, "tree", 0),
     Entry(<<"a", "/", "b", "/", "y">>, "blob", 3),
     Entry(<<"a", "/", "x">>, "blob", 4),
     Entry(<<"f">>, "blob", 5) >>

RECURSIVE SubListing(_, _, _)
SubListing(list, S, i) ==
  IF i > Len(list) THEN <<>>
  ELSE (IF i \in S THEN <<list[i]>> ELSE <<>>) \o SubListing(list, S, i + 1)

\* a listing is a repository when every entry's parent directory is in it
ParentClosed(S) ==
  \A i \in S :
    dirname(Universe[i].path) = DOT
    \/ \E j \in S : /\ Universe[j].type = "tree"
                    /\ Universe[j].path = dirname(Universe[i].path)

Remotes == {SubListing(Universe, S, 1) : S \in {X \in SUBSET (1..Len(Universe)) : ParentClosed(X)}}

Below(base, path) ==
  IF base = Commit THEN path
  ELSE SubSeq(path, Len(base) + 2, Len(path))

IsBelow(base, path) ==
  base = Commit \/ IsPrefix(base \o <<SLASH>>, path)

RECURSIVE ListingOf(_, _, _, _)
ListingOf(repo, sha, recursive, i) ==
  IF i > Len(repo) THEN <<>>
  ELSE LET e == repo[i]
           rel == Below(sha, e.path)
           keep == IsBelow(sha, e.path) /\ (recursive \/ IndexOf(rel, SLASH) = 0)
       IN (IF keep THEN <<[e EXCEPT !.path = rel]>> ELSE <<>>)
          \o ListingOf(repo, sha, recursive, i + 1)

\* octokit.git.getTree({tree_sha, recursive}) before any truncation
RemoteTree(repo, sha, recursive) == ListingOf(repo, sha, recursive, 1)

\* the first missing key on the way to the child, as getTruncatedTree looks
\* it up: the segments are used as they come, not escaped
ChildMissing(T, elementPath) ==
  LET paths == Split(elementPath) IN
    \E i \in 1..Len(paths) : SubSeq(paths, 1, i) \notin DOMAIN T

(***************************************************************************)
(* The reading of a Tree back as a flat listing (the Tree encoding stores  *)
(* `$`-prefixed segments escaped, so a reader strips the escape).          *)
(***************************************************************************)
UnescapeSeg(k) ==
  IF Len(k) > 1 /\ k[1] = BACKSLASH /\ k[2] = DOLLAR THEN Tail(k) ELSE k

UnescapePath(keys) == [i \in 1..Len(keys) |-> UnescapeSeg(keys[i])]

Flatten(T) ==
  {[path |-> JoinSegs(UnescapePath(k)), type |-> T[k].type, size |-> T[k].size] :
     k \in DOMAIN T}

ListingEntries(list) ==
  {[path |-> list[i].path, type |-> list[i].type, size |-> list[i].size] :
     i \in 1..Len(list)}

(***************************************************************************)
(* The local filesystem under the storage root, as node's fs sees it.      *)
(* fs maps the key of every existing node (its absolute path, as segments) *)
(* to the node; every node's parent exists and is a directory.             *)
(***************************************************************************)
\* config.FOLDER
FOLDER == <<"/", "r">>

\* StorageBase.repoPath: the per-repository subdirectory
repoPath(repoId) == repoId \o <<SLASH>>

Dir == [type |-> "dir", data |-> <<>>]
File(bytes) == [type |-> "file", data |-> bytes]

NonEmpty(seg) == Len(seg) > 0
KeyOf(fullPath) == SelectSeq(Split(fullPath), NonEmpty)
HasTrailingSlash(fullPath) == Len(fullPath) > 1 /\ Last(fullPath) = SLASH

\* the longest prefix of key that exists
RECURSIVE DeepestExisting(_, _)
DeepestExisting(fs, key) ==
  IF key \in DOMAIN fs THEN key ELSE DeepestExisting(fs, Front(key))

\* the errno of a path lookup, "" when the path names a node
LookupErr(fs, fullPath) ==
  LET key == KeyOf(fullPath)
      at == DeepestExisting(fs, key)
  IN IF at = key
       THEN (IF fs[key].type = "file" /\ HasTrailingSlash(fullPath)
               THEN "ENOTDIR" ELSE "")
     ELSE IF fs[at].type = "file" THEN "ENOTDIR"
     ELSE "ENOENT"

\* the inode number of a node; no two live nodes share one
Ino(key) == JoinSegs(key)

\* fs.promises.stat
Stat(fs, fullPath) ==
  LET err == LookupErr(fs, fullPath)
      key == KeyOf(fullPath)
  IN IF err # ""
       THEN [err |-> err, isDirectory |-> FALSE, isFile |-> FALSE,
             size |-> 0, ino |-> <<>>]
     ELSE [err |-> "", isDirectory |-> fs[key].type = "dir",
           isFile |-> fs[key].type = "file",
           size |-> Len(fs[key].data), ino |-> Ino(key)]

Prefixes(key) == {SubSeq(key, 1, i) : i \in 0..Len(key)}

\* mkdir without recursive: only the last directory is created
MkdirFlat(fs, fullPath) ==
  LET key == KeyOf(fullPath) IN
    IF key \in DOMAIN fs THEN [err |-> "EEXIST", fs |-> fs]
    ELSE IF Front(key) \notin DOMAIN fs THEN [err |-> "ENOENT", fs |-> fs]
    ELSE IF fs[Front(key)].type = "file" THEN [err |-> "ENOTDIR", fs |-> fs]
    ELSE [err |-> "", fs |-> (key :> Dir) @@ fs]

\* fs.promises.mkdir(fullPath, {recursive: true})
Mkdir(fs, fullPath) ==
  LET key == KeyOf(fullPath)
      at == DeepestExisting(fs, key)
  IN IF fs[at].type = "file"
       THEN [err |-> (IF at = key THEN "EEXIST" ELSE "ENOTDIR"), fs |-> fs]
     ELSE [err |-> "",
           fs |-> [k \in (Prefixes(key) \ DOMAIN fs) |-> Dir] @@ fs]

\* fs.promises.writeFile(fullPath, data)
WriteFile(fs, fullPath, bytes) ==
  LET key == KeyOf(fullPath)
      parent == Front(key)
      at == DeepestExisting(fs, parent)
  IN IF key = <<>> THEN [err |-> "EISDIR", fs |-> fs]
     ELSE IF fs[at].type = "file" THEN [err |-> "ENOTDIR", fs |-> fs]
     ELSE IF at # parent THEN [err |-> "ENOENT", fs |-> fs]
     ELSE IF key \in DOMAIN fs /\ fs[key].type = "dir"
       THEN [err |-> "EISDIR", fs |-> fs]
     ELSE IF HasTrailingSlash(fullPath) THEN [err |-> "ENOTDIR", fs |-> fs]
     ELSE [err |-> "", fs |-> (key :> File(bytes)) @@ fs]

\* rm without force: a missing target is an error
RmNoForce(fs, fullPath) ==
  LET key == KeyOf(fullPath)
      err == LookupErr(fs, fullPath)
  IN IF err # "" THEN [err |-> err, fs |-> fs]
     ELSE [err |-> "", fs |-> Restrict(fs, {k \in DOMAIN fs : ~IsPrefix(key, k)})]

\* fs.promises.rm(fullPath, {force: true, recursive: true}): force forgives
\* ENOENT, and only ENOENT
RmForce(fs, fullPath) ==
  LET key == KeyOf(fullPath)
      err == LookupErr(fs, fullPath)
  IN IF err = "ENOENT" THEN [err |-> "", fs |-> fs]
     ELSE IF err # "" THEN [err |-> err, fs |-> fs]
     ELSE [err |-> "", fs |-> Restrict(fs, {k \in DOMAIN fs : ~IsPrefix(key, k)})]

\* fs.promises.readdir
Readdir(fs, fullPath) ==
  LET key == KeyOf(fullPath)
      err == LookupErr(fs, fullPath)
  IN IF err # "" THEN [err |-> err, files |-> <<>>]
     ELSE IF fs[key].type # "dir" THEN [err |-> "ENOTDIR", files |-> <<>>]
     ELSE [err |-> "",
           files |-> SetToSeq({Last(k) : k \in {c \in DOMAIN fs :
                                  Len(c) = Len(key) + 1 /\ IsPrefix(key, c)}})]

\* Buffer.from(string, "utf-8"): the bytes writeFile persists for a string
CharBytes(c) ==
  IF c = "$" THEN <<36>>
  ELSE IF c = "x" THEN <<120>>
  ELSE <<195, 169>>   \* "e" stands for U+00E9, two bytes in UTF-8

RECURSIVE Utf8Encode(_)
Utf8Encode(str) ==
  IF Len(str) = 0 THEN <<>> ELSE CharBytes(Head(str)) \o Utf8Encode(Tail(str))

(***************************************************************************)
(* FileSystem (storage backend).  Every operation yields                   *)
(*   [raised, err, value, fs]: whether it threw, what, what it returned,   *)
(* and the filesystem it leaves.                                           *)
(***************************************************************************)
Returned(value, fs) == [raised |-> FALSE, err |-> "", value |-> value, fs |-> fs]
Raised(err, fs) == [raised |-> TRUE, err |-> err, value |-> <<>>, fs |-> fs]

FullPath(repoId, p) == join(<<FOLDER, repoPath(repoId), p>>)

\* exists without its try/catch: a failed stat propagates
existsNoCatch(fs, repoId, p) ==
  LET stat == Stat(fs, FullPath(repoId, p)) IN
    IF stat.err # "" THEN Raised(stat.err, fs)
    ELSE IF stat.isDirectory THEN Returned("FOLDER", fs)
    ELSE IF stat.isFile THEN Returned("FILE", fs)
    ELSE Returned("NOT_FOUND", fs)

\* FileSystem.exists
exists(fs, repoId, p) ==
  LET stat == Stat(fs, FullPath(repoId, p)) IN
    IF stat.err = "" /\ stat.isDirectory THEN Returned("FOLDER", fs)
    ELSE IF stat.err = "" /\ stat.isFile THEN Returned("FILE", fs)
    ELSE Returned("NOT_FOUND", fs)

\* FileSystem.read: createReadStream opens lazily, so read itself never
\* throws; the stream delivers the bytes or an error
read(fs, repoId, p) ==
  LET stat == Stat(fs, FullPath(repoId, p))
      key == KeyOf(FullPath(repoId, p))
  IN IF stat.err # "" THEN Returned([err |-> stat.err, bytes |-> <<>>], fs)
     ELSE IF stat.isDirectory THEN Returned([err |-> "EISDIR", bytes |-> <<>>], fs)
     ELSE Returned([err |-> "", bytes |-> fs[key].data], fs)

\* FileSystem.mk
mk(fs, repoId, dir) ==
  LET r == Mkdir(fs, FullPath(repoId, dir)) IN
    IF r.err # "" /\ r.err # "EEXIST" THEN Raised(r.err, fs)
    ELSE Returned(<<>>, r.fs)

\* write swallowing the failure of writeFile
writeSwallow(fs, repoId, p, data) ==
  LET made == mk(fs, repoId, dirname(p)) IN
    IF made.raised THEN made
    ELSE Returned(<<>>, WriteFile(made.fs, FullPath(repoId, p), Utf8Encode(data)).fs)

\* FileSystem.write
write(fs, repoId, p, data) ==
  LET made == mk(fs, repoId, dirname(p)) IN
    IF made.raised THEN made
    ELSE LET w == WriteFile(made.fs, FullPath(repoId, p), Utf8Encode(data)) IN
      IF w.err # "" THEN Raised(w.err, made.fs)
      ELSE Returned(<<>>, w.fs)

\* FileSystem.rm
rm(fs, repoId, dir) ==
  LET r == RmForce(fs, FullPath(repoId, dir)) IN
    IF r.err # "" THEN Raised(r.err, fs) ELSE Returned(<<>>, r.fs)

\* output[file] = subtree
Graft(T, key, sub) ==
  [k \in {<<key>> \o j : j \in DOMAIN sub} |-> sub[SubSeq(k, 2, Len(k))]]
  @@ TreeAssign(T, <<key>>, DirNode)

ListResult(raised, err, T, entries) ==
  [raised |-> raised, err |-> err, tree |-> T, entries |-> entries]

RECURSIVE listFiles(_, _, _)
RECURSIVE ListFilesLoop(_, _, _, _, _)
\* FileSystem.listFiles: [raised, err, tree, entries], entries being the
\* onEntry calls in the order they are made
listFiles(fs, repoId, dir) ==
  LET rd == Readdir(fs, FullPath(repoId, dir)) IN
    IF rd.err # "" THEN ListResult(TRUE, rd.err, EmptyTree, <<>>)
    ELSE ListFilesLoop(fs, repoId, dir, rd.files, ListResult(FALSE, "", EmptyTree, <<>>))

\* the statted path of listFiles' loop: join(fullPath, filePath), where
\* fullPath already ends in dir and filePath = join(dir, file)
StatPath(repoId, dir, file) ==
  join(<<FullPath(repoId, dir), join(<<dir, file>>)>>)

\* for (let file of files) { ... }
ListFilesLoop(fs, repoId, dir, files, out) ==
  IF Len(files) = 0 THEN out
  ELSE
    LET file == Head(files)
        filePath == join(<<dir, file>>)
        stats == Stat(fs, StatPath(repoId, dir, file))
        key == EscapeSeg(file)
        sub == listFiles(fs, repoId, filePath)
        next ==
          IF stats.err # "" THEN out
          ELSE IF stats.isDirectory THEN
            (IF sub.raised
               THEN ListResult(FALSE, "", out.tree, out.entries \o sub.entries)
             ELSE ListResult(FALSE, "", Graft(out.tree, key, sub.tree),
                             out.entries \o sub.entries))
          ELSE IF stats.isFile THEN
            ListResult(FALSE, "",
                       TreeAssign(out.tree, <<key>>, FileEntry(stats.size, stats.ino)),
                       Append(out.entries, [path |-> filePath, size |-> stats.size]))
          ELSE out
    IN ListFilesLoop(fs, repoId, dir, Tail(files), next)

(***************************************************************************)
(* FileSystem.extractZip.  A zip is the sequence of its entries            *)
(* [name, data]; unzip-stream's Extract decodes each name with             *)
(* decodeString and extracts it below opts.path.                           *)
(***************************************************************************)
DEVNULL == <<"/", "d", "e", "v", "/", "n", "u", "l", "l">>

\* decodeString: name.substr(name.indexOf("/") + 1), "" becoming /dev/null
decodeString(name) ==
  LET newName == SubSeq(name, IndexOf(name, SLASH) + 1, Len(name)) IN
    IF newName = <<>> THEN DEVNULL ELSE newName

\* Extract's handling of one entry: destPath = path.join(opts.path, entry.path);
\* a directory entry (no bytes, name ending in "/") is created, anything else
\* is written after its directory was created.  (Extract also rewrites ".."
\* segments of a name; the archives here hold none.)
ExtractEntry(fs, fullPath, entry) ==
  LET entryPath == decodeString(entry.name)
      isDirectory == Len(entry.data) = 0 /\ Last(entryPath) = SLASH
      destPath == join(<<fullPath, entryPath>>)
      made == Mkdir(fs, IF isDirectory THEN destPath ELSE dirname(destPath))
  IN IF made.err # "" THEN made
     ELSE IF isDirectory THEN made
     ELSE WriteFile(made.fs, destPath, entry.data)

RECURSIVE ExtractFrom(_, _, _, _)
ExtractFrom(fs, fullPath, zip, i) ==
  IF i > Len(zip) THEN [err |-> "", fs |-> fs]
  ELSE LET r == ExtractEntry(fs, fullPath, zip[i]) IN
    IF r.err # "" THEN r ELSE ExtractFrom(r.fs, fullPath, zip, i + 1)

\* FileSystem.extractZip: the pipeline rejects with the first error
extractZip(fs, repoId, p, zip) ==
  LET r == ExtractFrom(fs, FullPath(repoId, p), zip, 1) IN
    IF r.err # "" THEN Raised(r.err, r.fs) ELSE Returned(<<>>, r.fs)

\*--- STATE ---------------------------------------------------------------
VARIABLES
  remote,     \* the revision served by the hosting API: its full listing
  tree,       \* the Tree object shared by every getTree/getTruncatedTree call
  stack,      \* the pending calls of getFiles, innermost last
  requests,   \* the get-tree requests issued so far: <<sha, recursive>>
  truncations,\* how many recursive responses came back truncated
  status,     \* "idle" | "running" | "done"
  fs,         \* the filesystem
  last,       \* [op, repoId, path, data, raised, err, value] of the latest
              \* storage call
  ar,         \* the archive call: its walk, the microtask queue, the archiver
  gfc,        \* the getFileContent call in progress, and how it ended
  cache,      \* the cache copies storage.write persisted: cache path -> bytes
  race,       \* a population of the cache (writes) running beside an rm
  gh,         \* a GitHubRepository handle, the metadata store, the remote
  queueJob    \* a removeCache queue job

syncVars == <<remote, tree, stack, requests, truncations, status>>
storeVars == <<fs, last>>
archVars == <<ar>>
blobVars == <<gfc, cache>>
sideVars == <<race, gh, queueJob>>
vars == <<syncVars, storeVars, archVars, blobVars, sideVars>>

(***************************************************************************)
(* GitHubStream.getFiles / getTree / getTruncatedTree                      *)
(***************************************************************************)
GetTreeFrame(sha, parentPath) ==
  [fn |-> "getTree", sha |-> sha, parentPath |-> parentPath,
   elems |-> <<>>, idx |-> 0]

TruncatedFrame(sha, parentPath) ==
  [fn |-> "getTruncatedTree", sha |-> sha, parentPath |-> parentPath,
   elems |-> <<>>, idx |-> 0]

Top == stack[Len(stack)]

SyncInit ==
  /\ remote \in Remotes
  /\ tree = EmptyTree
  /\ stack = <<>>
  /\ requests = <<>>
  /\ truncations = 0
  /\ status = "idle"

\* getFiles(): return this.getTree(this.branch.commit)
GetFiles ==
  /\ status = "idle"
  /\ status' = "running"
  /\ stack' = <<GetTreeFrame(Commit, <<>>)>>
  /\ UNCHANGED <<remote, tree, requests, truncations>>
  /\ UNCHANGED <<storeVars, archVars, blobVars, sideVars>>

\* what a recursive request answers: the whole listing, or, cut short by
\* the response cap, its first k entries with truncated = true
RecursiveResponses(repo, sha) ==
  LET full == RemoteTree(repo, sha, TRUE) IN
    {[tree |-> SubSeq(full, 1, k), truncated |-> k < Len(full)] : k \in 0..Len(full)}

\* getTree: the recursive request, the fold, and on truncation the call of
\* getTruncatedTree
GetTree ==
  /\ status = "running" /\ Len(stack) > 0 /\ Top.fn = "getTree"
  /\ \E ghRes \in RecursiveResponses(remote, Top.sha) :
       /\ requests' = Append(requests, <<Top.sha, TRUE>>)
       /\ tree' = tree2Tree(ghRes.tree, tree, Top.parentPath)
       /\ IF ghRes.truncated
            THEN /\ stack' = [stack EXCEPT ![Len(stack)] =
                                TruncatedFrame(Top.sha, Top.parentPath)]
                 /\ truncations' = truncations + 1
            ELSE /\ stack' = Front(stack)
                 /\ UNCHANGED truncations
  /\ UNCHANGED <<remote, status>>
  /\ UNCHANGED <<storeVars, archVars, blobVars, sideVars>>

\* getTruncatedTree: the single-level request
GetTruncatedTreeRequest ==
  /\ status = "running" /\ Len(stack) > 0
  /\ Top.fn = "getTruncatedTree" /\ Top.idx = 0
  /\ requests' = Append(requests, <<Top.sha, FALSE>>)
  /\ stack' = [stack EXCEPT ![Len(stack)] =
                 [Top EXCEPT !.elems = RemoteTree(remote, Top.sha, FALSE),
                             !.idx = 1]]
  /\ UNCHANGED <<remote, tree, truncations, status>>
  /\ UNCHANGED <<storeVars, archVars, blobVars, sideVars>>

\* the recursion made with the listed revision instead of the child's
ChildCallSameSha(sha, elem, elementPath) == GetTreeFrame(sha, elementPath)

\* await this.getTree(elem.sha, truncatedTree, elementPath)
ChildCall(sha, elem, elementPath) == GetTreeFrame(elem.sha, elementPath)

\* getTruncatedTree: one iteration of `for (let elem of tree)`
GetTruncatedTreeLoop ==
  /\ status = "running" /\ Len(stack) > 0
  /\ Top.fn = "getTruncatedTree" /\ Top.idx > 0 /\ Top.idx <= Len(Top.elems)
  /\ LET elem == Top.elems[Top.idx]
         elementPath == join(<<Top.parentPath, elem.path>>)
         advanced == [stack EXCEPT ![Len(stack)] = [Top EXCEPT !.idx = Top.idx + 1]]
     IN IF /\ Len(elem.path) > 0
           /\ elem.type = "tree"
           /\ ChildMissing(tree, elementPath)
           /\ Len(elem.sha) > 0
          THEN stack' = Append(advanced, ChildCall(Top.sha, elem, elementPath))
          ELSE stack' = advanced
  /\ UNCHANGED <<remote, tree, requests, truncations, status>>
  /\ UNCHANGED <<storeVars, archVars, blobVars, sideVars>>

\* getTruncatedTree: the second fold, and the return through getTree
GetTruncatedTreeFold ==
  /\ status = "running" /\ Len(stack) > 0
  /\ Top.fn = "getTruncatedTree" /\ Top.idx > Len(Top.elems)
  /\ tree' = tree2Tree(Top.elems, tree, Top.parentPath)
  /\ stack' = Front(stack)
  /\ UNCHANGED <<remote, requests, truncations, status>>
  /\ UNCHANGED <<storeVars, archVars, blobVars, sideVars>>

\* getFiles returns the Tree
GetFilesReturn ==
  /\ status = "running" /\ stack = <<>>
  /\ status' = "done"
  /\ UNCHANGED <<remote, tree, stack, requests, truncations>>
  /\ UNCHANGED <<storeVars, archVars, blobVars, sideVars>>

SyncNext ==
  \/ GetFiles
  \/ GetTree
  \/ GetTruncatedTreeRequest
  \/ GetTruncatedTreeLoop
  \/ GetTruncatedTreeFold
  \/ GetFilesReturn

\* the Tree of one complete, non-truncated recursive listing
CompleteTree == tree2Tree(RemoteTree(remote, Commit, TRUE), EmptyTree, <<>>)

(***************************************************************************)
(* The storage backend in use: operations run one after the other on the   *)
(* cache; `last` is the latest call and what it gave back.                 *)
(***************************************************************************)
RepoIds == {<<"A">>}

P_ROOT == <<>>
P_A == <<"a">>
P_AB == <<"a", "/", "b", ".", "t", "x", "t">>
P_C == <<"c", ".", "t", "x", "t">>
Paths == {P_ROOT, P_A, P_AB, P_C}

\* file contents: 10 bytes; 5 bytes starting with the `$` marker
DATA10 == <<"x", "x", "x", "x", "x", "x", "x", "x", "x", "x">>
DATA5 == <<"$", "e", "x", "x">>
DataSet == {DATA10, DATA5}

\* an archive as a download service wraps it, and one with a bare entry
ZipWrapped ==
  << [name |-> <<"w", "/">>, data |-> <<>>],
     [name |-> <<"w", "/">> \o P_AB, data |-> Utf8Encode(DATA10)] >>
ZipBare == << [name |-> P_C, data |-> Utf8Encode(DATA5)] >>
Zips == {ZipWrapped, ZipBare}
ZipTargets == {P_ROOT, P_A}

InitialFs == [k \in Prefixes(KeyOf(FOLDER)) |-> Dir]

Call(op, repoId, path, data, res) ==
  [op |-> op, repoId |-> repoId, path |-> path, data |-> data,
   raised |-> res.raised, err |-> res.err, value |-> res.value]

StoreInit ==
  /\ fs = InitialFs
  /\ last = Call("none", <<>>, <<>>, <<>>, Returned(<<>>, InitialFs))

Write ==
  /\ \E repoId \in RepoIds, p \in Paths, data \in DataSet :
       LET res == write(fs, repoId, p, data) IN
         /\ fs' = res.fs
         /\ last' = Call("write", repoId, p, data, res)
  /\ UNCHANGED <<syncVars, archVars, blobVars, sideVars>>

Mk ==
  /\ \E repoId \in RepoIds, p \in Paths :
       LET res == mk(fs, repoId, p) IN
         /\ fs' = res.fs
         /\ last' = Call("mk", repoId, p, <<>>, res)
  /\ UNCHANGED <<syncVars, archVars, blobVars, sideVars>>

Rm ==
  /\ \E repoId \in RepoIds, p \in Paths :
       LET res == rm(fs, repoId, p) IN
         /\ fs' = res.fs
         /\ last' = Call("rm", repoId, p, <<>>, res)
  /\ UNCHANGED <<syncVars, archVars, blobVars, sideVars>>

ExtractZip ==
  /\ \E repoId \in RepoIds, p \in ZipTargets, zip \in Zips :
       LET res == extractZip(fs, repoId, p, zip) IN
         /\ fs' = res.fs
         /\ last' = Call("extractZip", repoId, p, zip, res)
  /\ UNCHANGED <<syncVars, archVars, blobVars, sideVars>>

Exists ==
  /\ \E repoId \in RepoIds, p \in Paths :
       LET res == exists(fs, repoId, p) IN
         /\ fs' = res.fs
         /\ last' = Call("exists", repoId, p, <<>>, res)
  /\ UNCHANGED <<syncVars, archVars, blobVars, sideVars>>

Read ==
  /\ \E repoId \in RepoIds, p \in Paths :
       LET res == read(fs, repoId, p) IN
         /\ fs' = res.fs
         /\ last' = Call("read", repoId, p, <<>>, res)
  /\ UNCHANGED <<syncVars, archVars, blobVars, sideVars>>

ListFiles ==
  /\ \E repoId \in RepoIds, p \in Paths :
       LET res == listFiles(fs, repoId, p) IN
         /\ UNCHANGED fs
         /\ last' = [op |-> "listFiles", repoId |-> repoId, path |-> p,
                     data |-> <<>>, raised |-> res.raised, err |-> res.err,
                     value |-> [tree |-> res.tree, entries |-> res.entries]]
  /\ UNCHANGED <<syncVars, archVars, blobVars, sideVars>>

StoreNext ==
  \/ Write
  \/ Mk
  \/ Rm
  \/ ExtractZip
  \/ Exists
  \/ Read
  \/ ListFiles

(***************************************************************************)
(* FileSystem.archive.  The walk (listFiles) and the onEntry callbacks are *)
(* asynchronous: a callback runs up to its `await this.read(...)`, whose   *)
(* continuation (pipe, archive.append) is a job on the microtask queue; a  *)
(* stat or readdir of the walk completes only once that queue is empty;    *)
(* the `.then(() => archive.finalize())` is queued when listFiles returns. *)
(***************************************************************************)
RECURSIVE FindFrom(_, _, _)
\* first position at or after i where pat occurs in str, 0 when none
FindFrom(str, pat, i) ==
  IF i + Len(pat) - 1 > Len(str) THEN 0
  ELSE IF SubSeq(str, i, i + Len(pat) - 1) = pat THEN i
  ELSE FindFrom(str, pat, i + 1)

\* String.prototype.replace(pat, ""): the first occurrence only
ReplaceFirst(str, pat) ==
  LET at == FindFrom(str, pat, 1) IN
    IF at = 0 THEN str
    ELSE SubSeq(str, 1, at - 1) \o SubSeq(str, at + Len(pat), Len(str))

\* what the continuation of onEntry hands to archive.append
AppendCall(repoId, dir, file, transformed) ==
  LET f == ReplaceFirst(file.path, FullPath(repoId, dir)) IN
    [name |-> basename(f), prefix |-> dirname(f),
     source |-> file.path, transformed |-> transformed]

\* the microtask queue is first in, first out
Enqueue(queue, job) == Append(queue, job)

\* finalize not chained on the walk: `.then` fires whenever
WalkDoneEarly(a) == TRUE

\* listFiles' promise resolves when its walk is over
WalkDone(a) == a.idx > Len(a.walk)

ArchiveIdle ==
  [phase |-> "idle", repoId |-> <<>>, dir |-> <<>>, transformer |-> FALSE,
   walk |-> <<>>, idx |-> 0, microtasks |-> <<>>, appends |-> <<>>,
   finalized |-> 0]

\* the caches an archive is taken of: every subset of these files, written
\* with FileSystem.write
CacheFiles ==
  { <<P_AB, DATA10>>, <<P_C, DATA5>>, <<<<"d">>, DATA5>> }

RECURSIVE WriteAll(_, _, _)
WriteAll(disk, repoId, files) ==
  IF Len(files) = 0 THEN disk
  ELSE WriteAll(write(disk, repoId, Head(files)[1], Head(files)[2]).fs,
                repoId, Tail(files))

Caches == {WriteAll(InitialFs, <<"A">>, SetToSeq(S)) : S \in SUBSET CacheFiles}

ArchiveInit ==
  /\ fs \in Caches
  /\ last = Call("none", <<>>, <<>>, <<>>, Returned(<<>>, InitialFs))
  /\ ar = ArchiveIdle

\* archive(repoId, dir, opt) up to listFiles' readdir
Archive ==
  /\ ar.phase = "idle"
  /\ \E repoId \in RepoIds, dir \in {P_ROOT, P_A}, transformer \in BOOLEAN :
       LET res == listFiles(fs, repoId, dir) IN
         ar' = [ar EXCEPT !.phase = IF res.raised THEN "failed" ELSE "walking",
                          !.repoId = repoId, !.dir = dir,
                          !.transformer = transformer,
                          !.walk = res.entries, !.idx = 1]
  /\ UNCHANGED <<fs, last>>
  /\ UNCHANGED <<syncVars, blobVars, sideVars>>

\* listFiles reaches a file: opt.onEntry(...) is called and not awaited
OnEntry ==
  /\ ar.phase = "walking" /\ ar.idx <= Len(ar.walk)
  /\ ar.microtasks = <<>>
  /\ ar' = [ar EXCEPT !.idx = ar.idx + 1,
                      !.microtasks = Enqueue(ar.microtasks,
                                       [job |-> "append", file |-> ar.walk[ar.idx]])]
  /\ UNCHANGED <<fs, last>>
  /\ UNCHANGED <<syncVars, blobVars, sideVars>>

\* listFiles returns: the .then callback is queued
ListFilesReturn ==
  /\ ar.phase = "walking" /\ WalkDone(ar)
  /\ ar' = [ar EXCEPT !.phase = "returned",
                      !.microtasks = Enqueue(ar.microtasks,
                                       [job |-> "finalize", file |-> <<>>])]
  /\ UNCHANGED <<fs, last>>
  /\ UNCHANGED <<syncVars, blobVars, sideVars>>

\* the next microtask: an onEntry continuation, or the .then callback
RunMicrotask ==
  /\ Len(ar.microtasks) > 0
  /\ LET job == Head(ar.microtasks) IN
       IF job.job = "append"
         THEN ar' = [ar EXCEPT !.microtasks = Tail(ar.microtasks),
                               !.appends = Append(ar.appends,
                                   AppendCall(ar.repoId, ar.dir, job.file, ar.transformer))]
       ELSE ar' = [ar EXCEPT !.microtasks = Tail(ar.microtasks),
                             !.finalized = ar.finalized + 1]
  /\ UNCHANGED <<fs, last>>
  /\ UNCHANGED <<syncVars, blobVars, sideVars>>

ArchiveNext ==
  \/ Archive
  \/ OnEntry
  \/ ListFilesReturn
  \/ RunMicrotask

(***************************************************************************)
(* GitHubStream.getFileContent                                             *)
(***************************************************************************)
\* the value of a base64 digit; 64 for "=", 65 for a character that is no
\* digit (Buffer.from skips it)
B64Val(c) ==
  IF c = "A" THEN 0
  ELSE IF c = "H" THEN 7
  ELSE IF c = "J" THEN 9
  ELSE IF c = "e" THEN 30
  ELSE IF c = "g" THEN 32
  ELSE IF c = "=" THEN 64
  ELSE 65

IsB64Digit(c) == B64Val(c) < 65

RECURSIVE B64Groups(_)
\* the bytes of the digits, four at a time; "=" ends the data
B64Groups(d) ==
  IF Len(d) < 2 \/ B64Val(d[1]) = 64 \/ B64Val(d[2]) = 64 THEN <<>>
  ELSE LET v1 == B64Val(d[1])
           v2 == B64Val(d[2])
           b1 == v1 * 4 + v2 \div 16
       IN IF Len(d) < 3 \/ B64Val(d[3]) = 64 THEN <<b1>>
          ELSE LET v3 == B64Val(d[3])
                   b2 == (v2 % 16) * 16 + v3 \div 4
               IN IF Len(d) < 4 \/ B64Val(d[4]) = 64 THEN <<b1, b2>>
                  ELSE <<b1, b2, (v3 % 4) * 64 + B64Val(d[4])>>
                         \o B64Groups(SubSeq(d, 5, Len(d)))

\* Buffer.from(content, "base64")
Base64Decode(content) == B64Groups(SelectSeq(content, IsB64Digit))

RECURSIVE Utf8Decode(_)
\* Buffer.prototype.toString(): an invalid byte becomes U+FFFD ("?")
Utf8Decode(bytes) ==
  IF Len(bytes) = 0 THEN <<>>
  ELSE IF bytes[1] = 36 THEN <<"$">> \o Utf8Decode(Tail(bytes))
  ELSE IF bytes[1] = 120 THEN <<"x">> \o Utf8Decode(Tail(bytes))
  ELSE IF Len(bytes) > 1 /\ bytes[1] = 195 /\ bytes[2] = 169
    THEN <<"e">> \o Utf8Decode(SubSeq(bytes, 3, Len(bytes)))
  ELSE <<"?">> \o Utf8Decode(Tail(bytes))

\* the repository the source belongs to
RepositoryId == <<"A">>

\* AnonymizedFile.originalCachePath
OriginalCachePath(file) == join(<<repoPath(RepositoryId), file.path>>)

NoSha == <<>>
AnonymizedFiles ==
  { [path |-> <<"f", "1">>, sha |-> NoSha],
    [path |-> <<"f", "1">>, sha |-> <<"s", "1">>],
    [path |-> <<"f", "2">>, sha |-> <<"s", "2">>] }

NoStatus == 0
Rejected(code) ==
  [rejected |-> TRUE, status |-> code, content |-> <<>>,
   encoding |-> "base64", size |-> 0]
Blob(content, size) ==
  [rejected |-> FALSE, status |-> 200, content |-> content,
   encoding |-> "base64", size |-> size]

\* what octokit.rest.git.getBlob may answer
BlobAnswers ==
  { Rejected(403), Rejected(404), Rejected(NoStatus),
    Blob(<<"J", "H", "g", "=", "\n">>, 2),   \* "$x"
    Blob(<<"e", "A", "=", "=">>, 1),         \* "x"
    Blob(<<>>, 0),                           \* an empty file
    Blob(<<>>, 7) }                          \* no content although not empty

\* a catch block that does not look at error.status
CaughtErrorAny(code) == "file_not_accessible"

\* the catch block of getFileContent and the throw after it
CaughtError(code) ==
  IF code = 403 THEN "file_too_big" ELSE "file_not_accessible"

\* a buffer that is left empty whatever the blob holds
ContentOfEmpty(ghRes) == <<>>

\* content = ghRes.data.content ? Buffer.from(content, encoding) : Buffer.from("")
ContentOf(ghRes) ==
  IF Len(ghRes.content) > 0 THEN Base64Decode(ghRes.content) ELSE <<>>

NoAnswer == [rejected |-> FALSE, status |-> NoStatus, content |-> <<>>,
             encoding |-> "", size |-> 0]

GfcIdle ==
  [phase |-> "idle", file |-> [path |-> <<>>, sha |-> NoSha], requests |-> 0,
   answer |-> NoAnswer, content |-> <<>>, written |-> "no",
   error |-> "", stream |-> <<>>]

BlobInit ==
  /\ gfc = GfcIdle
  /\ cache = <<>>

\* getFileContent(file) up to the getBlob request
GetFileContent ==
  /\ gfc.phase \in {"idle", "done"}
  /\ \E file \in AnonymizedFiles :
       IF file.sha = NoSha
         THEN gfc' = [GfcIdle EXCEPT !.phase = "done", !.file = file,
                                     !.error = "file_sha_not_provided"]
       ELSE gfc' = [GfcIdle EXCEPT !.phase = "getBlob", !.file = file,
                                   !.requests = 1]
  /\ UNCHANGED cache
  /\ UNCHANGED <<syncVars, storeVars, archVars, sideVars>>

\* the answer of getBlob, up to storage.write
GetBlobAnswer ==
  /\ gfc.phase = "getBlob"
  /\ \E ghRes \in BlobAnswers :
       IF ghRes.rejected
         THEN gfc' = [gfc EXCEPT !.phase = "done", !.answer = ghRes,
                                 !.error = CaughtError(ghRes.status)]
       ELSE IF Len(ghRes.content) = 0 /\ ghRes.size # 0
         THEN gfc' = [gfc EXCEPT !.phase = "done", !.answer = ghRes,
                                 !.error = CaughtError(NoStatus)]
       ELSE gfc' = [gfc EXCEPT !.phase = "write", !.answer = ghRes,
                               !.content = ContentOf(ghRes)]
  /\ UNCHANGED cache
  /\ UNCHANGED <<syncVars, storeVars, archVars, sideVars>>

\* storage.write(file.originalCachePath, content) succeeds: the stream is
\* returned
StorageWrite ==
  /\ gfc.phase = "write"
  /\ cache' = (OriginalCachePath(gfc.file) :> gfc.content) @@ cache
  /\ gfc' = [gfc EXCEPT !.phase = "done", !.written = "yes",
                        !.stream = Utf8Decode(gfc.content)]
  /\ UNCHANGED <<syncVars, storeVars, archVars, sideVars>>

\* storage.write fails: the error is caught like any other
StorageWriteFails ==
  /\ gfc.phase = "write"
  /\ gfc' = [gfc EXCEPT !.phase = "done", !.written = "failed",
                        !.error = CaughtError(NoStatus)]
  /\ UNCHANGED cache
  /\ UNCHANGED <<syncVars, storeVars, archVars, sideVars>>

BlobNext ==
  \/ GetFileContent
  \/ GetBlobAnswer
  \/ StorageWrite
  \/ StorageWriteFails

(***************************************************************************)
(* The storage backend shared by two repositories and called with any     *)
(* path argument: the caller passes the path as it got it, and            *)
(* join(config.FOLDER, this.repoPath(repoId), p) resolves it.              *)
(***************************************************************************)
RepoA == <<"A">>
RepoB == <<"B">>

P_CKZ == <<"c", ".", "t", "x", "t", "/", "k", "/", "z">>
P_UPB == <<".", ".", "/", "B">>
P_UPC == <<".", ".", "/", "B", "/", "c", ".", "t", "x", "t">>
AnyPaths == {P_ROOT, P_C, P_CKZ, P_UPB, P_UPC}

\* the cache of B holds c.txt when the calls on A start
SharedFs == write(InitialFs, RepoB, P_C, DATA5).fs

SharedInit ==
  /\ fs = SharedFs
  /\ last = Call("none", <<>>, <<>>, <<>>, Returned(<<>>, SharedFs))

WriteAny ==
  /\ \E p \in AnyPaths, data \in DataSet :
       LET res == write(fs, RepoA, p, data) IN
         /\ fs' = res.fs
         /\ last' = Call("write", RepoA, p, data, res)
  /\ UNCHANGED <<syncVars, archVars, blobVars, sideVars>>

MkAny ==
  /\ \E p \in AnyPaths :
       LET res == mk(fs, RepoA, p) IN
         /\ fs' = res.fs
         /\ last' = Call("mk", RepoA, p, <<>>, res)
  /\ UNCHANGED <<syncVars, archVars, blobVars, sideVars>>

RmAny ==
  /\ \E p \in AnyPaths :
       LET res == rm(fs, RepoA, p) IN
         /\ fs' = res.fs
         /\ last' = Call("rm", RepoA, p, <<>>, res)
  /\ UNCHANGED <<syncVars, archVars, blobVars, sideVars>>

ExtractZipAny ==
  /\ \E p \in {P_ROOT, P_UPB} :
       LET res == extractZip(fs, RepoA, p, ZipBare) IN
         /\ fs' = res.fs
         /\ last' = Call("extractZip", RepoA, p, ZipBare, res)
  /\ UNCHANGED <<syncVars, archVars, blobVars, sideVars>>

\* exists, read and listFiles (which archive walks with)
LookAny ==
  /\ \E p \in AnyPaths, op \in {"exists", "read", "listFiles"} :
       LET res == IF op = "exists" THEN exists(fs, RepoA, p)
                  ELSE IF op = "read" THEN read(fs, RepoA, p)
                  ELSE LET l == listFiles(fs, RepoA, p) IN
                    [raised |-> l.raised, err |-> l.err,
                     value |-> [tree |-> l.tree, entries |-> l.entries],
                     fs |-> fs]
       IN /\ fs' = res.fs
          /\ last' = Call(op, RepoA, p, <<>>, res)
  /\ UNCHANGED <<syncVars, archVars, blobVars, sideVars>>

SharedNext ==
  \/ WriteAny
  \/ MkAny
  \/ RmAny
  \/ ExtractZipAny
  \/ LookAny

\* no handle, no job
GhIdle == <<>>
JobIdle == <<>>

(***************************************************************************)
(* A population of a repository's cache, write after write, beside an     *)
(* rm(repoId, "") of the same repository.  Nothing orders the two: each    *)
(* await of write (after mk, after writeFile) lets the rm run.             *)
(***************************************************************************)
\* the files a population writes, in order
Populations ==
  { <<f>> : f \in {<<P_AB, DATA10>>, <<P_C, DATA5>>} }
    \cup { <<<<P_AB, DATA10>>, <<P_C, DATA5>>>>, <<<<P_C, DATA5>>, <<P_AB, DATA10>>>> }

RaceIdle ==
  [files |-> <<>>, wi |-> 1, wpc |-> "mk", wraised |-> FALSE, werr |-> "",
   rm |-> "idle", overlapped |-> FALSE]

RaceInit ==
  /\ fs \in Caches
  /\ last = Call("none", <<>>, <<>>, <<>>, Returned(<<>>, InitialFs))
  /\ \E files \in Populations : race = [RaceIdle EXCEPT !.files = files, !.rm = "pending"]

\* the population is over: every write returned, or one raised
PopulationEnded == race.wraised \/ race.wi > Len(race.files)
\* the population wrote or created something and is not over
PopulationRunning == ~PopulationEnded /\ (race.wi > 1 \/ race.wpc = "writeFile")

\* skipping the creation of the parent directories
MkParentsSkipped(disk, repoId, p) == Returned(<<>>, disk)

\* write, first half: await this.mk(repoId, dirname(p))
MkParents(disk, repoId, p) == mk(disk, repoId, dirname(p))

WriteMk ==
  /\ race.rm # "idle" /\ ~PopulationEnded /\ race.wpc = "mk"
  /\ LET res == MkParents(fs, RepoA, race.files[race.wi][1]) IN
       /\ fs' = res.fs
       /\ race' = IF res.raised
                    THEN [race EXCEPT !.wraised = TRUE, !.werr = res.err]
                  ELSE [race EXCEPT !.wpc = "writeFile"]
  /\ UNCHANGED <<last, gh, queueJob>>
  /\ UNCHANGED <<syncVars, archVars, blobVars>>

\* write, second half: await fs.promises.writeFile(fullPath, data, "utf-8")
WriteWriteFile ==
  /\ race.rm # "idle" /\ ~PopulationEnded /\ race.wpc = "writeFile"
  /\ LET file == race.files[race.wi]
         res == WriteFile(fs, FullPath(RepoA, file[1]), Utf8Encode(file[2]))
     IN /\ fs' = res.fs
        /\ race' = IF res.err # ""
                     THEN [race EXCEPT !.wraised = TRUE, !.werr = res.err]
                   ELSE [race EXCEPT !.wi = race.wi + 1, !.wpc = "mk"]
  /\ UNCHANGED <<last, gh, queueJob>>
  /\ UNCHANGED <<syncVars, archVars, blobVars>>

\* rm(repoId, "") of the same repository, at any moment
RmBeside ==
  /\ race.rm = "pending"
  /\ LET res == rm(fs, RepoA, P_ROOT) IN
       /\ fs' = res.fs
       /\ race' = [race EXCEPT !.rm = IF res.raised THEN "raised" ELSE "done",
                               !.overlapped = PopulationRunning]
  /\ UNCHANGED <<last, gh, queueJob>>
  /\ UNCHANGED <<syncVars, archVars, blobVars>>

RaceNext ==
  \/ WriteMk
  \/ WriteWriteFile
  \/ RmBeside

(***************************************************************************)
(* GitHubRepository: branches() and readme() of one handle.  gh.branches   *)
(* is this._data.branches, gh.store the branches of the repository's       *)
(* record in the metadata store, gh.remote what listBranches answers; a    *)
(* branch list maps each branch name to [commit, readme].                  *)
(***************************************************************************)
BranchNames == {"main", "dev"}
Commits == {"c1", "c2"}

\* this._data.defaultBranch
DefaultBranch == "main"

\* a readme that was never set, and one holding a text
NoReadme == [defined |-> FALSE, text |-> <<>>]
Text(t) == [defined |-> TRUE, text |-> t]

\* JavaScript's truthiness of `readme`: undefined and "" are falsy
Truthy(readme) == readme.defined /\ Len(readme.text) > 0

NoBranches == <<>>

\* what octokit.paginate(listBranches) may answer: name -> commit sha; main
\* is pushed to, dev comes and goes
RemoteLists ==
  {l \in UNION {[S -> Commits] : S \in SUBSET BranchNames} :
     "dev" \in DOMAIN l => l["dev"] = "c1"}

\* what octokit.repos.getReadme may answer: a rejection (no readme at that
\* ref), or a text in base64, which may be empty
ReadmeAnswers ==
  { [rejected |-> TRUE, content |-> <<>>],
    [rejected |-> FALSE, content |-> <<"e", "A", "=", "=">>],
    [rejected |-> FALSE, content |-> <<>>] }

\* the readme a refresh gives a listed branch, never mind its commit
RefreshedReadmeOfSameCommit(cached, name, commit) ==
  IF name \in DOMAIN cached /\ cached[name].commit = commit
    THEN cached[name].readme ELSE NoReadme

\* this._data.branches?.filter((f) => f.name == b.name)[0]?.readme
RefreshedReadme(cached, name, commit) ==
  IF name \in DOMAIN cached THEN cached[name].readme ELSE NoReadme

BranchesResult(raised, list, stored, refreshed) ==
  [raised |-> raised, branches |-> list, store |-> stored, refreshed |-> refreshed]

\* GitHubRepository.branches(opt): listed is the answer of listBranches,
\* listOk whether the request succeeded
branches(g, force, listOk, listed) ==
  IF DOMAIN g.branches = {} \/ force
    THEN IF ~listOk THEN BranchesResult(TRUE, g.branches, g.store, FALSE)
         ELSE LET fresh == [name \in DOMAIN listed |->
                              [commit |-> listed[name],
                               readme |-> RefreshedReadme(g.branches, name, listed[name])]]
              IN BranchesResult(FALSE, fresh, fresh, TRUE)
  ELSE BranchesResult(FALSE, g.store, g.store, FALSE)

\* !selected?.readme || opt?.force === true
MustFetch(list, branch, force) ==
  \/ branch \notin DOMAIN list
  \/ ~Truthy(list[branch].readme)
  \/ force

\* Buffer.from(content, encoding).toString("utf-8")
ReadmeText(ghRes) == Utf8Decode(Base64Decode(ghRes.content))

ReadmeResult(raised, err, value, requested, b) ==
  [raised |-> raised, err |-> err, value |-> value, requested |-> requested,
   branches |-> b.branches, store |-> b.store, refreshed |-> b.refreshed]

\* GitHubRepository.readme(opt); model.branches is this._data.branches, so
\* `selected` is the branch record of both, and model.save() stores it
readme(g, opt, listOk, listed, ghRes) ==
  LET branch == IF opt.branch = "" THEN DefaultBranch ELSE opt.branch
      b == branches(g, opt.force, listOk, listed)
  IN IF b.raised THEN ReadmeResult(TRUE, "listBranches", <<>>, FALSE, b)
     ELSE IF ~MustFetch(b.branches, branch, opt.force)
       THEN ReadmeResult(FALSE, "", b.branches[branch].readme.text, FALSE, b)
     ELSE IF ghRes.rejected THEN ReadmeResult(TRUE, "getReadme", <<>>, TRUE, b)
     ELSE IF branch \notin DOMAIN b.branches
       THEN ReadmeResult(TRUE, "TypeError", <<>>, TRUE, b)
     ELSE LET saved == [b.branches EXCEPT
                          ![branch].readme = Text(ReadmeText(ghRes))]
          IN ReadmeResult(FALSE, "", ReadmeText(ghRes), TRUE,
                          BranchesResult(FALSE, saved, saved, b.refreshed))

NoCall ==
  [op |-> "none", branch |-> "", force |-> FALSE, requested |-> FALSE,
   raised |-> FALSE, err |-> "", value |-> <<>>, refreshed |-> FALSE,
   before |-> NoBranches, listed |-> NoBranches]

\* the stored records a handle is built from (getRepositoryFromGitHub hands
\* the stored record to the constructor)
StoredLists ==
  { NoBranches,
    [name \in {"main"} |-> [commit |-> "c1", readme |-> Text(<<"x">>)]] }

GhInit ==
  \E stored \in StoredLists, listed \in RemoteLists :
    gh = [branches |-> stored, store |-> stored, remote |-> listed,
          last |-> NoCall]

BranchesCall ==
  /\ \E force \in BOOLEAN, listOk \in BOOLEAN :
       LET res == branches(gh, force, listOk, gh.remote) IN
         gh' = [gh EXCEPT
                  !.branches = res.branches, !.store = res.store,
                  !.last = [NoCall EXCEPT !.op = "branches", !.force = force,
                              !.raised = res.raised, !.refreshed = res.refreshed,
                              !.before = gh.store, !.listed = gh.remote]]
  /\ UNCHANGED <<race, queueJob>>
  /\ UNCHANGED <<syncVars, storeVars, archVars, blobVars>>

ReadmeCall ==
  /\ \E branch \in BranchNames \cup {""}, force \in BOOLEAN,
        listOk \in BOOLEAN, ghRes \in ReadmeAnswers :
       LET res == readme(gh, [branch |-> branch, force |-> force],
                         listOk, gh.remote, ghRes)
       IN gh' = [gh EXCEPT
                   !.branches = res.branches, !.store = res.store,
                   !.last = [NoCall EXCEPT
                               !.op = "readme",
                               !.branch = IF branch = "" THEN DefaultBranch ELSE branch,
                               !.force = force, !.requested = res.requested,
                               !.raised = res.raised, !.err = res.err,
                               !.value = res.value, !.refreshed = res.refreshed,
                               !.before = gh.store, !.listed = gh.remote]]
  /\ UNCHANGED <<race, queueJob>>
  /\ UNCHANGED <<syncVars, storeVars, archVars, blobVars>>

\* the remote repository changes: a push, a new branch, a deleted branch
RemotePush ==
  /\ \E listed \in RemoteLists \ {gh.remote} :
       gh' = [gh EXCEPT !.remote = listed]
  /\ UNCHANGED <<race, queueJob>>
  /\ UNCHANGED <<syncVars, storeVars, archVars, blobVars>>

GhNext ==
  \/ BranchesCall
  \/ ReadmeCall
  \/ RemotePush

(***************************************************************************)
(* The removeCache queue job.  queueJob.records are the repoIds that have  *)
(* a record in AnonymizedRepositoryModel; recorded lists the errors given  *)
(* to span.recordException, raised is the error the handler's promise      *)
(* rejects with ("" when it resolves), ended counts span.end().            *)
(***************************************************************************)
JobRepoIds == {"a", "b", "c"}

NoError == ""

JobInit ==
  \E records \in SUBSET JobRepoIds :
    queueJob = [pc |-> "idle", repoId |-> "", records |-> records,
                found |-> FALSE, removeCalls |-> 0, failed |-> NoError,
                recorded |-> <<>>, raised |-> NoError, ended |-> 0]

\* finally { console.log(...); span.end(); }
Finally(j) == [j EXCEPT !.pc = "done", !.ended = @ + 1]

\* an outer catch that records the error and throws it again
OuterCatchRethrow(j, error) ==
  [Finally([j EXCEPT !.recorded = Append(@, error)]) EXCEPT !.raised = error]

\* } catch (error) { span.recordException(error) } finally { ... }
OuterCatch(j, error) == Finally([j EXCEPT !.recorded = Append(@, error)])

\* catch (error) { span.recordException(error); throw error; } around
\* repo.removeCache(): the error goes on to the outer catch
InnerCatch(j, error) ==
  OuterCatch([j EXCEPT !.recorded = Append(@, error)], error)

\* the queue hands a job to the handler: startSpan, setAttribute
JobStart ==
  /\ queueJob.pc \in {"idle", "done"}
  /\ \E repoId \in JobRepoIds :
       queueJob' = [pc |-> "connect", repoId |-> repoId,
                    records |-> queueJob.records, found |-> FALSE,
                    removeCalls |-> 0, failed |-> NoError,
                    recorded |-> <<>>, raised |-> NoError, ended |-> 0]
  /\ UNCHANGED <<race, gh>>
  /\ UNCHANGED <<syncVars, storeVars, archVars, blobVars>>

\* await connect()
Connect ==
  /\ queueJob.pc = "connect"
  /\ \E ok \in BOOLEAN :
       queueJob' =
         IF ok THEN [queueJob EXCEPT !.pc = "getRepository"]
         ELSE OuterCatch([queueJob EXCEPT !.failed = "connect"], "connect")
  /\ UNCHANGED <<race, gh>>
  /\ UNCHANGED <<syncVars, storeVars, archVars, blobVars>>

\* await getRepository(job.data.repoId): findOne may reject; no record is
\* repo_not_found
GetRepository ==
  /\ queueJob.pc = "getRepository"
  /\ \E ok \in BOOLEAN :
       queueJob' =
         IF ~ok
           THEN OuterCatch([queueJob EXCEPT !.failed = "findOne"], "findOne")
         ELSE IF queueJob.repoId \notin queueJob.records
           THEN OuterCatch([queueJob EXCEPT !.failed = "repo_not_found"],
                           "repo_not_found")
         ELSE [queueJob EXCEPT !.pc = "removeCache", !.found = TRUE]
  /\ UNCHANGED <<race, gh>>
  /\ UNCHANGED <<syncVars, storeVars, archVars, blobVars>>

\* await repo.removeCache()
RemoveCache ==
  /\ queueJob.pc = "removeCache"
  /\ \E ok \in BOOLEAN :
       LET called == [queueJob EXCEPT !.removeCalls = @ + 1] IN
         queueJob' =
           IF ok THEN Finally(called)
           ELSE InnerCatch([called EXCEPT !.failed = "removeCache"],
                           "removeCache")
  /\ UNCHANGED <<race, gh>>
  /\ UNCHANGED <<syncVars, storeVars, archVars, blobVars>>

JobNext ==
  \/ JobStart
  \/ Connect
  \/ GetRepository
  \/ RemoveCache

(***************************************************************************)
(* Specifications: one per subsystem; the other subsystems stay idle.      *)
(***************************************************************************)
SideIdle == race = RaceIdle /\ gh = GhIdle /\ queueJob = JobIdle

SyncIdle ==
  /\ remote = <<>> /\ tree = EmptyTree /\ stack = <<>> /\ requests = <<>>
  /\ truncations = 0 /\ status = "idle"

\* the tree synchronizer
InitSync == SyncInit /\ StoreInit /\ ar = ArchiveIdle /\ BlobInit /\ SideIdle
SpecSync == InitSync /\ [][SyncNext]_vars

\* the storage backend
InitStore == StoreInit /\ SyncIdle /\ ar = ArchiveIdle /\ BlobInit /\ SideIdle
SpecStore == InitStore /\ [][StoreNext]_vars

\* archive() over a populated cache
InitArchive == ArchiveInit /\ SyncIdle /\ BlobInit /\ SideIdle
SpecArchive == InitArchive /\ [][ArchiveNext]_vars

\* the storage backend under two repositories
InitShared == SharedInit /\ SyncIdle /\ ar = ArchiveIdle /\ BlobInit /\ SideIdle
SpecShared == InitShared /\ [][SharedNext]_vars

\* a population racing an rm
InitRace == RaceInit /\ SyncIdle /\ ar = ArchiveIdle /\ BlobInit /\ gh = GhIdle /\ queueJob = JobIdle
SpecRace == InitRace /\ [][RaceNext]_vars

\* branches() and readme() of a repository handle
InitGh == GhInit /\ StoreInit /\ SyncIdle /\ ar = ArchiveIdle /\ BlobInit /\ race = RaceIdle /\ queueJob = JobIdle
SpecGh == InitGh /\ [][GhNext]_vars

\* the removeCache queue job
InitJob == JobInit /\ StoreInit /\ SyncIdle /\ ar = ArchiveIdle /\ BlobInit /\ race = RaceIdle /\ gh = GhIdle
SpecJob == InitJob /\ [][JobNext]_vars

\* getFileContent
InitBlob == BlobInit /\ StoreInit /\ SyncIdle /\ ar = ArchiveIdle /\ SideIdle
SpecBlob == InitBlob /\ [][BlobNext]_vars

(***************************************************************************)
(* Claims                                                                  *)
(***************************************************************************)

\* C1: whatever the remote tree and however the recursive listings are cut
\* short, the Tree getFiles() returns equals the Tree folded from one
\* complete, non-truncated recursive listing of the revision.
C1_GetFilesEqualsCompleteTree ==
  status = "done" => tree = CompleteTree

\* the files a Tree lists: (path from the listed root, size)
TreeFiles(T) ==
  {[path |-> JoinSegs(UnescapePath(k)), size |-> T[k].size] :
     k \in {j \in DOMAIN T : T[j].type = "blob"}}

\* the files cached below dir of a repository: (path from dir, size)
CachedFiles(disk, repoId, dir) ==
  LET root == KeyOf(FullPath(repoId, dir)) IN
    {[path |-> JoinSegs(SubSeq(k, Len(root) + 1, Len(k))),
      size |-> Len(disk[k].data)] :
       k \in {j \in DOMAIN disk : /\ disk[j].type = "file"
                                  /\ IsPrefix(root, j) /\ j # root}}

\* C2: listFiles on the root of a repository returns a Tree with one
\* FileEntry, of the stored size, for every cached file at every depth (so
\* a/b.txt of 10 bytes and c.txt of 5 bytes after the two writes).
C2_ListFilesListsEveryFile ==
  (last.op = "listFiles" /\ last.path = P_ROOT /\ ~last.raised)
    => TreeFiles(last.value.tree) = CachedFiles(fs, last.repoId, P_ROOT)

\* C3: archive.finalize() is called only after the listFiles walk is over
\* and archive.append() was issued for every file the walk discovered, in
\* the walk's order, with or without a fileTransformer.
C3_FinalizeAfterEveryAppend ==
  ar.finalized > 0 =>
    /\ ar.idx > Len(ar.walk)
    /\ Len(ar.appends) = Len(ar.walk)
    /\ \A i \in 1..Len(ar.walk) : ar.appends[i].source = ar.walk[i].path

\* C3 witness: a finalized archive of two files built with a transformer
C3_Witness ==
  /\ ar.finalized = 1 /\ ar.transformer
  /\ Len(ar.walk) = 2 /\ Len(ar.appends) = 2

\* C4: archive(repoId, dir) over a cached subtree of N files, at any depth,
\* issues exactly N appends, one per file, each named by the file's path
\* relative to dir (name = basename, prefix = dirname), in walk order.
C4_ArchiveAppendsEveryFile ==
  ar.finalized > 0 =>
    LET files == CachedFiles(fs, ar.repoId, ar.dir) IN
      /\ Len(ar.appends) = Cardinality(files)
      /\ {[name |-> ar.appends[i].name, prefix |-> ar.appends[i].prefix] :
            i \in 1..Len(ar.appends)}
         = {[name |-> basename(f.path), prefix |-> dirname(f.path)] : f \in files}
      /\ \A i \in 1..Len(ar.appends) : ar.appends[i].source = ar.walk[i].path

\* what the node at a path is
NodeKind(disk, repoId, p) ==
  LET key == KeyOf(FullPath(repoId, p)) IN
    IF key \notin DOMAIN disk THEN "NOT_FOUND"
    ELSE IF disk[key].type = "dir" THEN "FOLDER"
    ELSE "FILE"

\* C5: exists never raises: FOLDER for a directory, FILE for a regular
\* file, NOT_FOUND when the path is absent or the lookup fails.
C5_ExistsNeverRaises ==
  last.op = "exists" =>
    /\ ~last.raised
    /\ last.value = NodeKind(fs, last.repoId, last.path)

\* C5 witness: exists answered NOT_FOUND for a lookup that failed because a
\* component of the path is a regular file
C5_Witness ==
  /\ last.op = "exists" /\ last.value = "NOT_FOUND"
  /\ LookupErr(fs, FullPath(last.repoId, last.path)) = "ENOTDIR"

\* C6: after a completed write(repoId, path, data), read(repoId, path)
\* yields exactly the written bytes and exists(repoId, path) reports FILE,
\* also for data starting with `$`.
C6_WriteThenRead ==
  (last.op = "write" /\ ~last.raised) =>
    /\ read(fs, last.repoId, last.path).value
         = [err |-> "", bytes |-> Utf8Encode(last.data)]
    /\ exists(fs, last.repoId, last.path).value = "FILE"

\* C6 witness: a completed write, into a new directory, of data that
\* starts with `$`
C6_Witness ==
  /\ last.op = "write" /\ ~last.raised
  /\ last.path = P_AB /\ last.data[1] = DOLLAR

\* the path and the paths below it
Below_(p) == {join(<<p, q>>) : q \in Paths}

Created(fullPath, name) == Prefixes(KeyOf(join(<<fullPath, name>>)))

\* the entry name without its first component
Stripped(name) == SubSeq(name, IndexOf(name, SLASH) + 1, Len(name))

\* C8: extractZip writes every entry at its name without the first path
\* component, and an entry whose stripped name is empty creates nothing in
\* the repository's cache.
C8_ExtractZipStripsWrapper ==
  [][(last'.op = "extractZip" /\ ~last'.raised) =>
       LET zip == last'.data
           fullPath == FullPath(last'.repoId, last'.path)
           named == {i \in 1..Len(zip) : Stripped(zip[i].name) # <<>>}
       IN /\ \A i \in named :
               Len(zip[i].data) > 0 =>
                 read(fs', last'.repoId,
                      join(<<last'.path, Stripped(zip[i].name)>>)).value
                   = [err |-> "", bytes |-> zip[i].data]
          /\ (DOMAIN fs' \ DOMAIN fs)
               \subseteq UNION {Created(fullPath, Stripped(zip[i].name)) : i \in named}
    ]_vars

\* how a getFileContent call failed to get the bytes
BlobFailed ==
  \/ gfc.answer.rejected
  \/ (gfc.phase = "done" /\ gfc.requests = 1
      /\ Len(gfc.answer.content) = 0 /\ gfc.answer.size # 0)
  \/ gfc.written = "failed"

\* C9: getFileContent fails with file_sha_not_provided, and no remote
\* call, when the file has no sha; with file_too_big when getBlob is
\* rejected with status 403; with file_not_accessible for every other
\* failure, a response with no content but a non-zero size included.
C9_GetFileContentErrors ==
  gfc.phase = "done" =>
    IF gfc.file.sha = NoSha
      THEN gfc.error = "file_sha_not_provided" /\ gfc.requests = 0
    ELSE IF gfc.answer.rejected /\ gfc.answer.status = 403
      THEN gfc.error = "file_too_big"
    ELSE IF BlobFailed THEN gfc.error = "file_not_accessible"
    ELSE gfc.error = ""

\* C9 witness: the blob came back with no content although its size is not 0
C9_Witness ==
  /\ gfc.phase = "done" /\ gfc.answer = Blob(<<>>, 7)
  /\ gfc.error = "file_not_accessible"

\* C10: folding a non-truncated listing with tree2Tree and reading the
\* Tree back as (path, type, size) entries gives exactly the listing's
\* entries.
C10_FoldRoundTrip ==
  (status = "done" /\ truncations = 0) =>
    Flatten(tree) = ListingEntries(remote)

\* the cache subtree of a repository
CacheOf(disk, repoId) ==
  LET root == KeyOf(FullPath(repoId, <<>>)) IN
    Restrict(disk, {k \in DOMAIN disk : IsPrefix(root, k)})

\* C11: no storage operation invoked with repository id A changes the
\* cache subtree of another repository id B, whatever its path argument.
C11_OtherCacheUnchanged ==
  [][last'.repoId = RepoA => CacheOf(fs', RepoB) = CacheOf(fs, RepoB)]_vars

\* the directories above the file a path names, below the storage root
ParentKeys(repoId, p) ==
  Prefixes(KeyOf(FullPath(repoId, dirname(p)))) \ Prefixes(KeyOf(FOLDER))

\* a regular file is in the way of the directories a path needs
Blocked(disk, repoId, p) ==
  \E k \in ParentKeys(repoId, p) : k \in DOMAIN disk /\ disk[k].type = "file"

\* C13: a second mk of the same path does not raise and changes nothing;
\* write creates every missing directory above its path, accepts the ones
\* that exist, and when a directory cannot be created it raises and leaves
\* the cache as it was, the bytes not persisted.
C13_MkIdempotentWriteParents ==
  [][/\ (last'.op = "mk" /\ ~last'.raised)
          => mk(fs', last'.repoId, last'.path) = Returned(<<>>, fs')
     /\ last'.op = "write" =>
          LET key == KeyOf(FullPath(last'.repoId, last'.path)) IN
            /\ ~last'.raised =>
                 /\ \A k \in ParentKeys(last'.repoId, last'.path) :
                      k \in DOMAIN fs' /\ fs'[k].type = "dir"
                 /\ fs'[key] = File(Utf8Encode(last'.data))
            /\ (/\ ~Blocked(fs, last'.repoId, last'.path)
                /\ key \notin Prefixes(KeyOf(FullPath(last'.repoId, <<>>)))
                /\ (key \in DOMAIN fs => fs[key].type = "file"))
                 => ~last'.raised
            /\ Blocked(fs, last'.repoId, last'.path)
                 => last'.raised /\ fs' = fs
    ]_vars

\* C13 witness: a write failed on a directory it could not create, a
\* regular file being in the way two levels up
C13_Witness ==
  /\ last.op = "write" /\ last.raised /\ last.err = "ENOTDIR"
  /\ last.path = P_CKZ
  /\ NodeKind(fs, last.repoId, P_C) = "FILE"

\* the step of getTruncatedTree's loop that looks at a subtree entry
AtSubtreeEntry ==
  /\ status = "running" /\ Len(stack) > 0
  /\ Top.fn = "getTruncatedTree" /\ Top.idx > 0 /\ Top.idx <= Len(Top.elems)
  /\ Top.elems[Top.idx].type = "tree"

\* the key path under which the folding passes insert a child
InsertedAt(parentPath, elem) == EscapePath(Split(join(<<parentPath, elem.path>>)))

\* C14: for every subtree entry of the single-level listing a recursive
\* listing is requested exactly when the child is absent from the
\* accumulated Tree, children whose name starts with `$` included.
C14_RequestIffChildAbsent ==
  [][AtSubtreeEntry =>
       ((Len(stack') = Len(stack) + 1)
          <=> InsertedAt(Top.parentPath, Top.elems[Top.idx]) \notin DOMAIN tree)
    ]_vars

\* the directories of the revision, and how deep they nest
TreePaths == {remote[i].path : i \in {j \in 1..Len(remote) : remote[j].type = "tree"}}
DirectoryDepth ==
  IF TreePaths = {} THEN 0
  ELSE CHOOSE d \in 1..Len(remote) :
         /\ \E t \in TreePaths : Len(Split(t)) = d
         /\ \A t \in TreePaths : Len(Split(t)) <= d

\* every pending call lists a directory one level below its caller's
Descending ==
  /\ Len(stack) <= 1 + DirectoryDepth
  /\ \A i \in 1..Len(stack) :
       Len(KeyOf(stack[i].parentPath)) = i - 1
  /\ Len(requests) <= 2 * (1 + Cardinality(TreePaths))

\* the entries a pending getTruncatedTree still has to look at
Remaining(frame) == IF frame.idx = 0 THEN 0 ELSE Len(frame.elems) - frame.idx + 1

RECURSIVE SumRemaining(_)
SumRemaining(frames) ==
  IF Len(frames) = 0 THEN 0
  ELSE Remaining(Head(frames)) + SumRemaining(Tail(frames))

\* what is left of getFiles: the requests it may still issue, the entries
\* its pending loops still hold, its pending calls, its return
Variant ==
  (2 * (1 + Cardinality(TreePaths)) - Len(requests)) * (2 * Len(remote) + 4)
    + 2 * SumRemaining(stack) + Len(stack)
    + (IF status = "idle" THEN 4 ELSE IF status = "running" THEN 1 ELSE 0)

\* some step of getFiles is possible: one of the guards of SyncNext holds
CanStep ==
  \/ status = "idle"
  \/ status = "running" /\ stack = <<>>
  \/ /\ status = "running" /\ Len(stack) > 0
     /\ \/ Top.fn = "getTree" /\ RecursiveResponses(remote, Top.sha) # {}
        \/ Top.fn = "getTruncatedTree" /\ Top.idx >= 0

\* C15: getFiles terminates for every remote tree and every truncation:
\* the nesting of getTree calls never exceeds the directory depth, the
\* listing requests stay bounded, every step takes the call strictly closer
\* to its end, and the call is never stuck before it returned.
C15_GetFilesTerminates ==
  /\ []Descending
  /\ [][Variant' < Variant]_vars
  /\ [](Variant >= 0 /\ (status # "done" => CanStep))

\* C15 witness: getFiles returned after two truncated responses, the second
\* one for a subtree
C15_Witness ==
  /\ status = "done" /\ truncations >= 2
  /\ \E i \in 1..Len(requests) : requests[i][1] # Commit

\* the onEntry calls of a walk that name a path
CallsFor(entries, path) == {i \in 1..Len(entries) : entries[i].path = path}

\* C16: a failing stat of one entry does not abort listFiles: the call
\* returns normally, the entry is left out of the Tree and gets no onEntry
\* call, and every entry whose stat succeeds is in the Tree, a file getting
\* exactly one onEntry call with its path and its size.
C16_StatFailureSkipsEntry ==
  (last.op = "listFiles"
     /\ Readdir(fs, FullPath(last.repoId, last.path)).err = "") =>
    LET dir == last.path
        files == Readdir(fs, FullPath(last.repoId, dir)).files
        T == last.value.tree
        entries == last.value.entries
    IN /\ ~last.raised
       /\ \A i \in 1..Len(files) :
            LET file == files[i]
                filePath == join(<<dir, file>>)
                stats == Stat(fs, StatPath(last.repoId, dir, file))
                calls == CallsFor(entries, filePath)
            IN IF stats.err # ""
                 THEN <<EscapeSeg(file)>> \notin DOMAIN T /\ calls = {}
               ELSE /\ <<EscapeSeg(file)>> \in DOMAIN T
                    /\ stats.isFile =>
                         /\ Cardinality(calls) = 1
                         /\ \A c \in calls :
                              /\ NodeKind(fs, last.repoId, filePath) = "FILE"
                              /\ entries[c].size
                                   = Len(fs[KeyOf(FullPath(last.repoId, filePath))].data)

\* the files of the population that are in the cache
Populated ==
  {i \in 1..Len(race.files) :
     NodeKind(fs, RepoA, race.files[i][1]) = "FILE"}

\* rm completed and the population is over, yet a write raised or the
\* cache directory exists without all of the population's files
Torn ==
  /\ race.rm = "done" /\ PopulationEnded
  /\ \/ race.wraised
     \/ /\ NodeKind(fs, RepoA, P_ROOT) = "FOLDER"
        /\ Populated # 1..Len(race.files)

\* C17: write and rm on one repository are not serialized: a torn cache
\* (rm completed, yet a write raised or the directory exists partially
\* populated) is reachable, and only when the rm ran while the population
\* was under way; run one after the other they never leave it.
C17_TornOnlyWhenOverlapping ==
  Torn => race.overlapped

\* C17 witness: the rm ran between a write's mk and its writeFile, and the
\* write raised
C17_Witness ==
  /\ Torn /\ race.overlapped
  /\ race.wraised /\ race.werr = "ENOENT" /\ race.wi = 1

\* a branch list holds a readme for the branch: one was fetched and stored
HasReadme(list, branch) == branch \in DOMAIN list /\ list[branch].readme.defined

\* C12: a get-readme request is issued only when the branch has no cached
\* readme or force = true; a fetched readme is persisted; a non-forced
\* readme() of a branch with a cached readme returns it without a request;
\* branches() never requests a readme.
C12_ReadmeFetchedOncePersisted ==
  /\ gh.last.op = "branches" => ~gh.last.requested
  /\ gh.last.op = "readme" =>
       LET c == gh.last IN
         /\ c.requested => (c.force \/ ~HasReadme(c.before, c.branch))
         /\ (c.requested /\ ~c.raised) =>
              /\ c.branch \in DOMAIN gh.store
              /\ gh.store[c.branch].readme = Text(c.value)
         /\ (~c.force /\ HasReadme(c.before, c.branch)) =>
              /\ ~c.requested /\ ~c.raised
              /\ c.value = c.before[c.branch].readme.text

\* C19: a refresh by branches() replaces the cached branch records with the
\* remote list and keeps the cached readme of every remote branch that was
\* cached before, also when its commit changed.
C19_RefreshKeepsReadme ==
  (gh.last.op = "branches" /\ gh.last.refreshed) =>
    LET c == gh.last IN
      /\ ~c.raised
      /\ DOMAIN gh.store = DOMAIN c.listed
      /\ \A name \in DOMAIN c.listed :
           /\ gh.store[name].commit = c.listed[name]
           /\ gh.store[name].readme
                = (IF name \in DOMAIN c.before
                     THEN c.before[name].readme ELSE NoReadme)
      /\ gh.branches = gh.store

\* C19 witness: a forced refresh kept the readme of main although main had
\* moved to another commit
C19_Witness ==
  /\ gh.last.op = "branches" /\ gh.last.refreshed /\ gh.last.force
  /\ "main" \in DOMAIN gh.last.before /\ "main" \in DOMAIN gh.store
  /\ gh.last.before["main"].commit # gh.store["main"].commit
  /\ Truthy(gh.store["main"].readme)

\* getBlob gave no blob: it was rejected, or answered no content for a size
\* that is not 0
BlobNotFetched ==
  \/ gfc.answer.rejected
  \/ Len(gfc.answer.content) = 0 /\ gfc.answer.size # 0

C20_RemoveCacheJobNeverRaises ==
  /\ queueJob.raised = NoError
  /\ queueJob.removeCalls <= 1
  /\ queueJob.removeCalls = 1 =>
       queueJob.found /\ queueJob.repoId \in queueJob.records
  /\ queueJob.pc = "done" =>
       /\ queueJob.ended = 1
       /\ queueJob.repoId \notin queueJob.records =>
            queueJob.failed \in {"connect", "findOne", "repo_not_found"}
       /\ IF queueJob.failed = NoError
            THEN queueJob.recorded = <<>> /\ queueJob.removeCalls = 1
            ELSE /\ Len(queueJob.recorded) >= 1
                 /\ \A i \in DOMAIN queueJob.recorded :
                      queueJob.recorded[i] = queueJob.failed

\* C20 witness: repo.removeCache() failed; the error was recorded by both
\* catch blocks and the job ended without raising
C20_Witness ==
  /\ queueJob.pc = "done" /\ queueJob.failed = "removeCache"
  /\ queueJob.recorded = <<"removeCache", "removeCache">>
  /\ queueJob.removeCalls = 1 /\ queueJob.raised = NoError
  /\ queueJob.ended = 1

=============================================================================
